---------------------------- MODULE Spec2Model ----------------------------
(***************************************************************************)
(* Thumbnail analysis backend: the detection-fusion core                   *)
(* (backend/app/core/image_processor.py) and the request handler that      *)
(* sequences it (backend/app/main.py).                                     *)
(*                                                                         *)
(* Conventions                                                             *)
(*  - A Python str is a sequence of one-character strings, so that         *)
(*    substring tests, lower() and strip() are computed, not assumed.      *)
(*  - A Python dict is a function whose DOMAIN is its set of keys;         *)
(*    "k in d" is  k \in DOMAIN d.                                         *)
(*  - A str the code only compares or stores (a dict key, a position, an   *)
(*    element_type, an exception name) is a TLA+ string.                   *)
(*  - Python None is the value NoneVal.                                    *)
(*  - A float score in [0,1] rounded to 3 decimals is held in thousandths  *)
(*    (0.5 is 500, 1.0 is 1000).                                           *)
(*  - A call's outcome is [status |-> "returned", value |-> v] or          *)
(*    [status |-> "raised", exc |-> name].                                 *)
(***************************************************************************)
EXTENDS Integers, Sequences, FiniteSets, TLC

VARIABLES
    call,     \* unit harness: the function called and its arguments
    ret,      \* unit harness: the outcome of that call
    req,      \* endpoint: the request's form fields and environment
    pc,       \* endpoint: position of the handler coroutine
    image_bytes,            \* endpoint local
    gemini_detections_list, \* endpoint local
    analysis_data,          \* endpoint local
    llm_result,             \* endpoint local
    response,               \* endpoint: what the client receives
    calls,    \* endpoint: the calls made through run_in_threadpool, in order
    heap,          \* concurrent invocations: the dict objects, by address
    inv,           \* concurrent invocations: each invocation's frame
    tesseract_cmd, \* concurrent invocations: pytesseract.pytesseract.tesseract_cmd
    handler,  \* server: each request's coroutine (position and locals)
    pool,     \* server: each request's job in the thread pool
    loop      \* server: the request whose code occupies the event loop

vars == <<call, ret, req, pc, image_bytes, gemini_detections_list,
          analysis_data, llm_result, response, calls,
          heap, inv, tesseract_cmd, handler, pool, loop>>

unitVars == <<call, ret>>
endpointVars == <<req, pc, image_bytes, gemini_detections_list,
                  analysis_data, llm_result, response, calls>>
concVars == <<heap, inv, tesseract_cmd>>
serverVars == <<handler, pool, loop>>

-----------------------------------------------------------------------------
(* Bounds of the model *)

\* longest detection list handed to run_full_analysis
MaxDetections == 2
\* longest text_blocks list handed to crop_and_extract_text
MaxBlocks == 2
\* largest width and height of an image whose pixels are enumerated
MaxDim == 2

-----------------------------------------------------------------------------
(* Python values *)

\* None: a value that is no character sequence and no number
NoneVal == << "<None>" >>

Returned(v) == [status |-> "returned", value |-> v]
Raised(e) == [status |-> "raised", exc |-> e]
Pending == [status |-> "pending"]
\* a local not yet bound, a response not yet sent
Unset == [unset |-> TRUE]
IsSet(v) == ~("unset" \in DOMAIN v)

HasKey(d, k) == k \in DOMAIN d
\* dict.get(k, default)
Get(d, k, default) == IF k \in DOMAIN d THEN d[k] ELSE default
\* d[k] = v on a copy of d
SetKey(d, k, v) == [x \in (DOMAIN d) \cup {k} |-> IF x = k THEN v ELSE d[x]]

\* The element of a one-element set. Only({ F(x) : x \in {e} }) is F(e) with
\* e evaluated once, however often F uses x.
Only(S) == CHOOSE x \in S : TRUE

Min(a, b) == IF a <= b THEN a ELSE b
Max(a, b) == IF a >= b THEN a ELSE b
Abs(a) == IF a >= 0 THEN a ELSE -a

\* int(a / b) for b > 0: Python's int() truncates toward zero
TruncDiv(a, b) == IF a >= 0 THEN a \div b ELSE -((-a) \div b)

-----------------------------------------------------------------------------
(* Strings *)

UpperChars == <<"A","B","C","D","E","F","G","H","I","J","K","L","M",
                "N","O","P","Q","R","S","T","U","V","W","X","Y","Z">>
LowerChars == <<"a","b","c","d","e","f","g","h","i","j","k","l","m",
                "n","o","p","q","r","s","t","u","v","w","x","y","z">>

LowerChar(c) ==
    IF \E i \in 1..26 : UpperChars[i] = c
    THEN LowerChars[CHOOSE i \in 1..26 : UpperChars[i] = c]
    ELSE c

\* str.lower()
Lower(s) == [i \in 1..Len(s) |-> LowerChar(s[i])]

\* k in s  (substring test)
Contains(s, k) ==
    \E i \in 0..(Len(s) - Len(k)) : SubSeq(s, i + 1, i + Len(k)) = k

-----------------------------------------------------------------------------
(* Element type classifier *)

text_keywords ==
    { <<"t","e","x","t">>, <<"c","a","p","t","i","o","n">>,
      <<"t","i","t","l","e">>, <<"s","u","b","t","i","t","l","e">>,
      <<"o","v","e","r","l","a","y">>, <<"w","o","r","d">>,
      <<"l","e","t","t","e","r">> }

face_keywords ==
    { <<"f","a","c","e">>, <<"p","e","r","s","o","n">>,
      <<"h","u","m","a","n">>, <<"h","e","a","d">>,
      <<"p","o","r","t","r","a","i","t">> }

is_text_element(label) ==
    LET label_lower == Lower(label)
    IN  \E keyword \in text_keywords : Contains(label_lower, keyword)

is_face_element(label) ==
    LET label_lower == Lower(label)
    IN  \E keyword \in face_keywords : Contains(label_lower, keyword)

\* A plausible slip: the face test made before the text test.
ElementGroup_FaceFirst(detection) ==
    LET label == Get(detection, "label", <<>>)
    IN  IF is_face_element(label) THEN "face"
        ELSE IF is_text_element(label) THEN "text"
        ELSE "object"

\* The if / elif / else of run_full_analysis's categorization loop:
\* the list a detection is appended to.
ElementGroup(detection) ==
    LET label == Get(detection, "label", <<>>)
    IN  IF is_text_element(label) THEN "text"
        ELSE IF is_face_element(label) THEN "face"
        ELSE "object"

\* A plausible slip: the object branch written as a separate "if not face",
\* so that a text detection is appended to the objects as well.
GroupOf_TextAlsoObject(detections, g) ==
    SelectSeq(detections,
              LAMBDA d : IF g = "object" THEN ElementGroup(d) # "face"
                         ELSE ElementGroup(d) = g)

\* The elements of a list that fall in group g, in list order.
GroupOf(detections, g) == SelectSeq(detections, LAMBDA d : ElementGroup(d) = g)

-----------------------------------------------------------------------------
(* Position bucket *)

\* A plausible slip: no special case for the middle cell.
calculate_face_position_NoMiddle(bbox_normalized) ==
    LET sum_x == bbox_normalized[1] + bbox_normalized[3]
        sum_y == bbox_normalized[2] + bbox_normalized[4]
        h_pos == IF sum_x < 2 * 333 THEN "left"
                 ELSE IF sum_x < 2 * 666 THEN "center" ELSE "right"
        v_pos == IF sum_y < 2 * 333 THEN "top"
                 ELSE IF sum_y < 2 * 666 THEN "center" ELSE "bottom"
    IN  v_pos \o "-" \o h_pos

\* A plausible slip: <= for < at the bucket boundaries.
calculate_face_position_Inclusive(bbox_normalized) ==
    LET sum_x == bbox_normalized[1] + bbox_normalized[3]
        sum_y == bbox_normalized[2] + bbox_normalized[4]
        h_pos == IF sum_x <= 2 * 333 THEN "left"
                 ELSE IF sum_x <= 2 * 666 THEN "center" ELSE "right"
        v_pos == IF sum_y <= 2 * 333 THEN "top"
                 ELSE IF sum_y <= 2 * 666 THEN "center" ELSE "bottom"
    IN  IF v_pos = "center" /\ h_pos = "center" THEN "center"
        ELSE IF v_pos = "center" THEN "center-" \o h_pos
        ELSE IF h_pos = "center" THEN v_pos \o "-center"
        ELSE v_pos \o "-" \o h_pos

\* center_x = (b[0] + b[2]) / 2 is a float; center_x < 333 is decided on
\* the doubled value, sum_x < 2 * 333, which is exact.
calculate_face_position(bbox_normalized) ==
    LET sum_x == bbox_normalized[1] + bbox_normalized[3]
        sum_y == bbox_normalized[2] + bbox_normalized[4]
        h_pos == IF sum_x < 2 * 333 THEN "left"
                 ELSE IF sum_x < 2 * 666 THEN "center" ELSE "right"
        v_pos == IF sum_y < 2 * 333 THEN "top"
                 ELSE IF sum_y < 2 * 666 THEN "center" ELSE "bottom"
    IN  IF v_pos = "center" /\ h_pos = "center" THEN "center"
        ELSE IF v_pos = "center" THEN "center-" \o h_pos
        ELSE IF h_pos = "center" THEN v_pos \o "-center"
        ELSE v_pos \o "-" \o h_pos

-----------------------------------------------------------------------------
(* Images *)

\* RGB samples a pixel is drawn from
Palette == { <<0, 0, 0>>, <<255, 255, 255>> }

\* A decoded image (img_array): shape h x w x 3, px in row-major order.
ImagesOf(w, h) == { [w |-> w, h |-> h, px |-> p] : p \in [1..(w * h) -> Palette] }

\* cv2.cvtColor(.., COLOR_RGB2GRAY) on 8-bit samples: fixed-point
\* 0.299 R + 0.587 G + 0.114 B with 14 fractional bits, rounded.
Gray(rgb) == (rgb[1] * 4899 + rgb[2] * 9617 + rgb[3] * 1868 + 8192) \div 16384

\* pixel (x, y), 0-based, lies in the region [y1:y2, x1:x2]
InRegion(b, x, y) == b.x1 <= x /\ x < b.x2 /\ b.y1 <= y /\ y < b.y2

RECURSIVE SumGray(_, _, _, _)
\* sum of gray[y, x] over the pixel indices 1..i that lie in the region b
\* (object = TRUE) or outside it (object = FALSE, the background mask)
SumGray(img, b, object, i) ==
    IF i = 0 THEN 0
    ELSE LET x == (i - 1) % img.w
             y == (i - 1) \div img.w
         IN  (IF InRegion(b, x, y) = object THEN Gray(img.px[i]) ELSE 0)
               + SumGray(img, b, object, i - 1)

\* round(num / den) to an integer, ties to even, as Python's round()
RoundHalfEven(num, den) ==
    LET q == num \div den
        r == num % den
    IN  IF 2 * r < den THEN q
        ELSE IF 2 * r > den THEN q + 1
        ELSE IF q % 2 = 0 THEN q ELSE q + 1

-----------------------------------------------------------------------------
(* Contrast of an element against the background *)

\* The pixel box of calculate_object_contrast after "Validate coordinates".
ContrastBox(w, h, bbox_normalized) ==
    LET dx1 == TruncDiv(bbox_normalized[1] * w, 1000)
        dy1 == TruncDiv(bbox_normalized[2] * h, 1000)
        dx2 == TruncDiv(bbox_normalized[3] * w, 1000)
        dy2 == TruncDiv(bbox_normalized[4] * h, 1000)
        x1 == Max(0, Min(dx1, w - 1))
        y1 == Max(0, Min(dy1, h - 1))
        x2 == Max(x1 + 1, Min(dx2, w))
        y2 == Max(y1 + 1, Min(dy2, h))
    IN  [x1 |-> x1, y1 |-> y1, x2 |-> x2, y2 |-> y2]

\* A plausible slip: the scaled value not capped at 1.0.
ScaledContrast_NoCap(diff, n) == RoundHalfEven(1000 * Abs(diff), 102 * n)

\* round(min(1.0, abs(object_mean - bg_mean) / 255.0 * 2.5), 3) in thousandths,
\* where object_mean - bg_mean = diff / n exactly:
\* |diff / n| / 255 * 2.5 = |diff| / (102 n).
ScaledContrast(diff, n) ==
    IF Abs(diff) >= 102 * n THEN 1000
    ELSE RoundHalfEven(1000 * Abs(diff), 102 * n)

\* A plausible slip: the "bg_pixels.size == 0" test left out; the mean of no
\* pixels is nan, and min(1.0, nan) is 1.0.
ContrastInBox_NoEmptyBg(img, b) ==
    LET n_obj == (b.x2 - b.x1) * (b.y2 - b.y1)
        n_bg == img.w * img.h - n_obj
    IN  IF b.x1 >= b.x2 \/ b.y1 >= b.y2 THEN Returned(500)
        ELSE IF n_obj = 0 THEN Returned(500)
        ELSE IF n_bg = 0 THEN Returned(1000)
        ELSE Returned(ScaledContrast(
                 SumGray(img, b, TRUE, img.w * img.h) * n_bg
                   - SumGray(img, b, FALSE, img.w * img.h) * n_obj,
                 n_obj * n_bg))

\* The body of calculate_object_contrast for the validated pixel box b.
ContrastInBox(img, b) ==
    LET n_obj == (b.x2 - b.x1) * (b.y2 - b.y1)
        n_bg == img.w * img.h - n_obj
    IN  IF b.x1 >= b.x2 \/ b.y1 >= b.y2 THEN Returned(500)
        ELSE IF n_obj = 0 THEN Returned(500)
        ELSE IF n_bg = 0 THEN Returned(500)
        ELSE Returned(ScaledContrast(
                 SumGray(img, b, TRUE, img.w * img.h) * n_bg
                   - SumGray(img, b, FALSE, img.w * img.h) * n_obj,
                 n_obj * n_bg))

\* calculate_object_contrast(img_array, bbox_normalized): indexing a box of
\* fewer than four entries raises before the try block is entered.
calculate_object_contrast(img, bbox_normalized) ==
    IF Len(bbox_normalized) < 4 THEN Raised("IndexError")
    ELSE Only({ ContrastInBox(img, b) :
                  b \in { ContrastBox(img.w, img.h, bbox_normalized) } })

-----------------------------------------------------------------------------
(* Text: strip() and split() *)

Whitespace == { " ", "\n", "\t" }

RECURSIVE LStrip(_)
LStrip(s) == IF s # <<>> /\ Head(s) \in Whitespace THEN LStrip(Tail(s)) ELSE s

RECURSIVE RStrip(_)
RStrip(s) ==
    IF s # <<>> /\ s[Len(s)] \in Whitespace
    THEN RStrip(SubSeq(s, 1, Len(s) - 1)) ELSE s

\* str.strip()
Strip(s) == RStrip(LStrip(s))

\* len(s.split()): the number of maximal runs of non-whitespace characters
WordCount(s) ==
    Cardinality({ i \in 1..Len(s) :
                    /\ s[i] \notin Whitespace
                    /\ (i = 1 \/ s[i - 1] \in Whitespace) })

STR_None == <<"N","o","n","e">>
STR_OCR_Failed == <<"O","C","R"," ","F","a","i","l","e","d">>

-----------------------------------------------------------------------------
(* Text region aggregation, crop and OCR *)

\* the pixel padding added around the aggregate text box
buffer == 15

EmptyTextResult ==
    [text_content |-> STR_None, word_count |-> 0, cropped_image_bytes |-> <<>>]

\* "Denormalize (assuming 0-1000 scale)" of one block's box
Denormalize(h, w, box) ==
    [x1 |-> TruncDiv(box[1] * w, 1000), y1 |-> TruncDiv(box[2] * h, 1000),
     x2 |-> TruncDiv(box[3] * w, 1000), y2 |-> TruncDiv(box[4] * h, 1000)]

\* A plausible slip: a zero-area box accepted (> for >=).
BoxIsUsable_ZeroArea(d) == ~(d.x1 > d.x2 \/ d.y1 > d.y2)

\* "Ensure valid coordinates": a denormalized box is used unless x1 >= x2 or y1 >= y2
BoxIsUsable(d) == ~(d.x1 >= d.x2 \/ d.y1 >= d.y2)

\* Whether the aggregation loop uses a block (none of its three "continue"s is taken).
BlockIsValid(h, w, block) ==
    /\ HasKey(block, "bbox_normalized")
    /\ Len(block["bbox_normalized"]) = 4
    /\ BoxIsUsable(Denormalize(h, w, block["bbox_normalized"]))

RECURSIVE AggregateFrom(_, _, _, _)
\* The aggregation loop: acc after the blocks of text_blocks have been visited in order.
AggregateFrom(h, w, text_blocks, acc) ==
    IF text_blocks = <<>> THEN acc
    ELSE LET block == Head(text_blocks)
             d == Denormalize(h, w, block["bbox_normalized"])
         IN  IF BlockIsValid(h, w, block)
             THEN AggregateFrom(h, w, Tail(text_blocks),
                    [min_x |-> Min(acc.min_x, d.x1), min_y |-> Min(acc.min_y, d.y1),
                     max_x |-> Max(acc.max_x, d.x2), max_y |-> Max(acc.max_y, d.y2),
                     valid_boxes_found |-> TRUE])
             ELSE AggregateFrom(h, w, Tail(text_blocks), acc)

Aggregate(h, w, text_blocks) ==
    AggregateFrom(h, w, text_blocks,
        [min_x |-> w, min_y |-> h, max_x |-> 0, max_y |-> 0,
         valid_boxes_found |-> FALSE])

\* A plausible slip: the padded box not clamped to the image.
FinalBox_NoClamp(h, w, agg) ==
    [x1 |-> agg.min_x - buffer, y1 |-> agg.min_y - buffer,
     x2 |-> agg.max_x + buffer, y2 |-> agg.max_y + buffer]

\* A plausible slip: the padded box floored at 0 but not capped at the
\* image's width and height.
FinalBox_FloorOnly(h, w, agg) ==
    [x1 |-> Max(0, agg.min_x - buffer), y1 |-> Max(0, agg.min_y - buffer),
     x2 |-> agg.max_x + buffer, y2 |-> agg.max_y + buffer]

\* "Add buffer and crop": final_x1, final_y1, final_x2, final_y2
FinalBox(h, w, agg) ==
    [x1 |-> Max(0, agg.min_x - buffer), y1 |-> Max(0, agg.min_y - buffer),
     x2 |-> Min(w, agg.max_x + buffer), y2 |-> Min(h, agg.max_y + buffer)]

\* crop_and_extract_text from "If no valid boxes found" on, for the aggregate agg.
CropAndOcr(h, w, agg, ocr) ==
    LET f == FinalBox(h, w, agg)
        region == <<f.x1, f.y1, f.x2, f.y2>>
        NoCrop == [result |-> EmptyTextResult, region |-> <<>>, ocr_called |-> FALSE]
    IN  IF ~agg.valid_boxes_found THEN NoCrop
        ELSE IF f.x1 >= f.x2 \/ f.y1 >= f.y2 THEN NoCrop
        ELSE IF (f.x2 - f.x1) * (f.y2 - f.y1) = 0 THEN NoCrop
        ELSE IF ocr.status = "raised"
             THEN [result |-> [text_content |-> STR_OCR_Failed, word_count |-> 0,
                               cropped_image_bytes |-> <<>>],
                   region |-> region, ocr_called |-> TRUE]
        ELSE Only({ [result |-> [text_content |-> IF text # <<>> THEN text ELSE STR_None,
                                 word_count |-> IF text # <<>> THEN WordCount(text) ELSE 0,
                                 cropped_image_bytes |-> region],
                     region |-> region, ocr_called |-> TRUE] :
                    text \in { Strip(ocr.value) } })

\* crop_and_extract_text(img_array, text_blocks), for img_array.shape = (h, w, 3).
\* ocr is the outcome of pytesseract.image_to_string on the binarized crop.
\* Besides the returned dict (result) the outcome records what the call did:
\* region, the slice <<x1, y1, x2, y2>> cropped (<<>> when none was), and
\* ocr_called. The JPEG bytes of a crop are represented by the crop's region.
crop_and_extract_text(h, w, text_blocks, ocr) ==
    IF text_blocks = <<>>
    THEN [result |-> EmptyTextResult, region |-> <<>>, ocr_called |-> FALSE]
    ELSE Only({ CropAndOcr(h, w, agg, ocr) : agg \in { Aggregate(h, w, text_blocks) } })

-----------------------------------------------------------------------------
(* run_full_analysis *)

\* A plausible slip: undecodable bytes replaced by a blank 1x1 image.
ImageOpen_Lenient(bytes) ==
    IF bytes.decodable THEN Returned(bytes.img)
    ELSE Returned([w |-> 1, h |-> 1, px |-> << <<0, 0, 0>> >>])

\* Image.open(io.BytesIO(image_bytes)) and the conversion to an RGB array
ImageOpen(bytes) ==
    IF bytes.decodable THEN Returned(bytes.img)
    ELSE Raised("UnidentifiedImageError")

\* "Process Text Elements": the blocks handed to crop_and_extract_text
RECURSIVE TextBlocksForOcr(_)
TextBlocksForOcr(text_elements) ==
    IF text_elements = <<>> THEN <<>>
    ELSE LET text_elem == Head(text_elements)
         IN  (IF HasKey(text_elem, "bbox_normalized")
              THEN << [bbox_normalized |-> text_elem["bbox_normalized"],
                       text_label |-> Get(text_elem, "label", <<"t","e","x","t">>)] >>
              ELSE <<>>) \o TextBlocksForOcr(Tail(text_elements))

\* A plausible slip: the "if 'bbox_normalized' in ..." test left out, so the
\* contrast and the position are computed for every element and the
\* subscript of a missing key raises.
ProcessElement_ComputeAlways(img, elem, element_type) ==
    IF HasKey(elem, "bbox_normalized")
    THEN Only({ IF c.status = "raised" THEN c
                ELSE Returned(
                       SetKey(SetKey(SetKey(elem, "contrast_score_vs_bg", c.value),
                                     "position",
                                     calculate_face_position(elem["bbox_normalized"])),
                              "element_type", element_type)) :
                c \in { calculate_object_contrast(img, elem["bbox_normalized"]) } })
    ELSE Raised("KeyError")

\* The body of the face loop and of the object loop for one element:
\* the copy with contrast_score_vs_bg, position and element_type set.
ProcessElement(img, elem, element_type) ==
    IF HasKey(elem, "bbox_normalized")
    THEN Only({ IF c.status = "raised" THEN c
                ELSE Returned(
                       SetKey(SetKey(SetKey(elem, "contrast_score_vs_bg", c.value),
                                     "position",
                                     calculate_face_position(elem["bbox_normalized"])),
                              "element_type", element_type)) :
                c \in { calculate_object_contrast(img, elem["bbox_normalized"]) } })
    ELSE Returned(
           SetKey(SetKey(SetKey(elem, "contrast_score_vs_bg", 500),
                         "position", "unknown"),
                  "element_type", element_type))

RECURSIVE ProcessAll_DropUnboxed(_, _, _)
\* A plausible slip: an element without a box is skipped ("continue") instead
\* of being appended with the defaults.
ProcessAll_DropUnboxed(img, elems, element_type) ==
    IF elems = <<>> THEN Returned(<<>>)
    ELSE IF ~HasKey(Head(elems), "bbox_normalized")
    THEN ProcessAll_DropUnboxed(img, Tail(elems), element_type)
    ELSE Only({ IF first.status = "raised" THEN first
                ELSE IF rest.status = "raised" THEN rest
                ELSE Returned(<<first.value>> \o rest.value) :
                first \in { ProcessElement(img, Head(elems), element_type) },
                rest \in { ProcessAll_DropUnboxed(img, Tail(elems), element_type) } })

RECURSIVE ProcessAll(_, _, _)
\* The face loop / the object loop: the processed list, or the first exception.
ProcessAll(img, elems, element_type) ==
    IF elems = <<>> THEN Returned(<<>>)
    ELSE Only({ IF first.status = "raised" THEN first
                ELSE IF rest.status = "raised" THEN rest
                ELSE Returned(<<first.value>> \o rest.value) :
                first \in { ProcessElement(img, Head(elems), element_type) },
                rest \in { ProcessAll(img, Tail(elems), element_type) } })

RECURSIVE DominantEmotion(_, _)
\* "if detected_emotion is None and 'emotion' in face_copy:
\*      detected_emotion = face_copy['emotion']" run over the faces in order.
DominantEmotion(faces, detected_emotion) ==
    IF faces = <<>> THEN detected_emotion
    ELSE DominantEmotion(Tail(faces),
            IF detected_emotion = NoneVal /\ HasKey(Head(faces), "emotion")
            THEN Head(faces)["emotion"] ELSE detected_emotion)

\* run_full_analysis after the image is loaded: STEP 2 to STEP 6.
\* The record holds the fields derived from the detections and the text;
\* average_brightness, contrast_level and dominant_colors are functions of
\* the pixels alone, computed by OpenCV and scikit-learn, and are not carried.
AnalyzeImage(img, gemini_detections, ocr) ==
    LET text_elements == GroupOf(gemini_detections, "text")
        face_elements == GroupOf(gemini_detections, "face")
        object_elements == GroupOf(gemini_detections, "object")
    IN  Only({ IF processed_faces.status = "raised" THEN processed_faces
               ELSE IF processed_objects.status = "raised" THEN processed_objects
               ELSE Returned(
                      [text_content |-> text_data.text_content,
                       word_count |-> text_data.word_count,
                       cropped_image_bytes |-> text_data.cropped_image_bytes,
                       face_count |-> Len(face_elements),
                       detected_emotion |-> DominantEmotion(face_elements, NoneVal),
                       detected_faces |-> processed_faces.value,
                       detected_objects |-> processed_objects.value]) :
               text_data \in { crop_and_extract_text(img.h, img.w,
                                   TextBlocksForOcr(text_elements), ocr).result },
               processed_faces \in { ProcessAll(img, face_elements, "face") },
               processed_objects \in { ProcessAll(img, object_elements, "object") } })

\* run_full_analysis(image_bytes, gemini_detections); ocr is the outcome of
\* the embedded Tesseract call.
run_full_analysis(bytes, gemini_detections, ocr) ==
    Only({ IF opened.status = "raised" THEN opened
           ELSE AnalyzeImage(opened.value, gemini_detections, ocr) :
           opened \in { ImageOpen(bytes) } })

\* classify_element_type(label), the legacy wrapper kept next to
\* run_full_analysis: it asks is_face_element first.
classify_element_type(label) ==
    IF is_face_element(label) THEN "face"
    ELSE IF is_text_element(label) THEN "text"
    ELSE "object"

-----------------------------------------------------------------------------
(* Inputs of the unit calls *)

SeqsUpTo(S, n) == UNION { [1..k -> S] : k \in 0..n }

\* --- calculate_face_position
PositionCoords == { 0, 100, 332, 333, 500, 666, 900, 1000 }
PositionBoxes ==
    { <<a, b, c, d>> : a \in PositionCoords, b \in PositionCoords,
                       c \in PositionCoords, d \in PositionCoords }

\* --- calculate_object_contrast
ContrastCoords == { 0, 500, 1000 }
ContrastBoxes ==
    { <<a, b, c, d>> : a \in ContrastCoords, b \in ContrastCoords,
                       c \in ContrastCoords, d \in ContrastCoords }
    \cup { <<>>, <<0, 0, 1000>>, <<0, 0, 500, 500, 7>> }
ContrastImages == UNION { ImagesOf(w, h) : w \in 1..MaxDim, h \in 1..MaxDim }

\* --- crop_and_extract_text
\* img_array.shape as <<h, w>>
Shapes == { <<1000, 1000>>, <<10, 20>>, <<1, 1>> }
TextBlockSet ==
    { [text_label |-> <<"a">>],
      [bbox_normalized |-> <<>>],
      [bbox_normalized |-> <<100, 100, 300>>],
      [bbox_normalized |-> <<100, 100, 300, 300, 5>>],
      [bbox_normalized |-> <<100, 100, 300, 300>>],
      [bbox_normalized |-> <<600, 600, 800, 800>>, text_label |-> <<"b">>],
      [bbox_normalized |-> <<300, 300, 100, 100>>],
      [bbox_normalized |-> <<500, 500, 500, 900>>],
      [bbox_normalized |-> <<0, 0, 1000, 1000>>],
      [bbox_normalized |-> <<-200, -200, -100, -100>>],
      [bbox_normalized |-> <<1100, 1100, 1300, 1300>>] }
OcrOutcomes ==
    { Raised("TesseractError"),
      Returned(<<>>),
      Returned(<<" ", "\n">>),
      Returned(<<"H","I"," "," ","Y","O","U","\n">>),
      Returned(STR_None) }

\* --- run_full_analysis
BLACK == <<0, 0, 0>>
WHITE == <<255, 255, 255>>
AnalysisInputs ==
    { [decodable |-> FALSE],
      [decodable |-> TRUE, img |-> [w |-> 1, h |-> 1, px |-> <<WHITE>>]],
      [decodable |-> TRUE,
       img |-> [w |-> 2, h |-> 2, px |-> <<BLACK, WHITE, WHITE, WHITE>>]] }

L_face == <<"f","a","c","e">>
L_Person == <<"P","e","r","s","o","n">>
L_text_person == <<"t","e","x","t","_","p","e","r","s","o","n">>
L_Title == <<"T","i","t","l","e">>
L_logo == <<"l","o","g","o">>
E_Neutral == <<"N","e","u","t","r","a","l">>
E_neutral == <<"n","e","u","t","r","a","l">>
E_Happy == <<"H","a","p","p","y">>

DetectionSet ==
    { [label |-> L_face, bbox_normalized |-> <<0, 0, 500, 500>>, emotion |-> E_Neutral],
      [label |-> L_Person, bbox_normalized |-> <<500, 0, 1000, 500>>, emotion |-> E_Happy],
      [label |-> L_face, bbox_normalized |-> <<0, 0, 1000, 1000>>, emotion |-> NoneVal],
      [label |-> L_face, emotion |-> E_neutral],
      [label |-> L_text_person, bbox_normalized |-> <<0, 0, 1000, 500>>, emotion |-> E_Happy],
      [label |-> L_Title, bbox_normalized |-> <<0, 500, 1000, 1000>>],
      [label |-> L_logo, bbox_normalized |-> <<500, 500, 1000, 1000>>],
      [label |-> L_logo],
      [label |-> L_face, bbox_normalized |-> <<0, 0, 500>>],
      [label |-> L_logo, bbox_normalized |-> <<0, 0, 500, 500, 9>>],
      [bbox_normalized |-> <<0, 0, 0, 1000>>] }
AnalysisOcrOutcomes ==
    { Raised("TesseractError"), Returned(<<>>),
      Returned(<<"H","I"," "," ","Y","O","U","\n">>),
      Returned(STR_None) }

\* --- classify_element_type
ClassifierLabels == { <<>>, L_face, L_Person, L_text_person, L_Title, L_logo }

-----------------------------------------------------------------------------
(* extract_youtube_thumbnail_url *)

STR_watch_prefix ==
    <<"y","o","u","t","u","b","e",".","c","o","m","/","w","a","t","c","h","?",
      "v","=">>
STR_short_prefix ==
    <<"y","o","u","t","u",".","b","e","/">>
STR_embed_prefix ==
    <<"y","o","u","t","u","b","e",".","c","o","m","/","e","m","b","e","d","/">>
STR_v_prefix ==
    <<"y","o","u","t","u","b","e",".","c","o","m","/","v","/">>
STR_thumbnail_head ==
    <<"h","t","t","p","s",":","/","/","i","m","g",".","y","o","u","t","u","b",
      "e",".","c","o","m","/","v","i","/">>
STR_thumbnail_tail ==
    <<"/","m","a","x","r","e","s","d","e","f","a","u","l","t",".","j","p","g">>

\* [^"&?\/\s]: the characters a video id may not hold
IdExcluded == { "\"", "&", "?", "/" } \cup Whitespace

\* A plausible slip: the id written as .{11}, any 11 characters.
MatchesAt_AnyChar(url, prefix, i) ==
    /\ i + Len(prefix) + 11 <= Len(url)
    /\ SubSeq(url, i + 1, i + Len(prefix)) = prefix

\* prefix followed by 11 id characters, matched at offset i (0-based) of url
MatchesAt(url, prefix, i) ==
    /\ i + Len(prefix) + 11 <= Len(url)
    /\ SubSeq(url, i + 1, i + Len(prefix)) = prefix
    /\ \A j \in 1..11 : url[i + Len(prefix) + j] \notin IdExcluded

\* re.search of one pattern, given as the alternatives of its literal prefix:
\* the group of the leftmost match, or NoneVal
SearchId(url, prefixes) ==
    LET hits == { i \in 0..Len(url) : \E q \in prefixes : MatchesAt(url, q, i) }
    IN  IF hits = {} THEN NoneVal
        ELSE LET i == CHOOSE x \in hits : \A y \in hits : x <= y
                 q == CHOOSE x \in prefixes : MatchesAt(url, x, i)
             IN  SubSeq(url, i + Len(q) + 1, i + Len(q) + 11)

\* extract_youtube_thumbnail_url(youtube_url): the three patterns in order
extract_youtube_thumbnail_url(youtube_url) ==
    LET m1 == SearchId(youtube_url, { STR_watch_prefix, STR_short_prefix })
        m2 == SearchId(youtube_url, { STR_embed_prefix })
        m3 == SearchId(youtube_url, { STR_v_prefix })
        video_id == IF m1 # NoneVal THEN m1 ELSE IF m2 # NoneVal THEN m2 ELSE m3
    IN  IF video_id = NoneVal THEN NoneVal
        ELSE STR_thumbnail_head \o video_id \o STR_thumbnail_tail

URL_watch ==
    <<"h","t","t","p","s",":","/","/","w","w","w",".","y","o","u","t","u","b",
      "e",".","c","o","m","/","w","a","t","c","h","?","v","=","d","Q","w","4",
      "w","9","W","g","X","c","Q">>
URL_short ==
    <<"h","t","t","p","s",":","/","/","y","o","u","t","u",".","b","e","/","d",
      "Q","w","4","w","9","W","g","X","c","Q">>
URL_embed ==
    <<"h","t","t","p","s",":","/","/","w","w","w",".","y","o","u","t","u","b",
      "e",".","c","o","m","/","e","m","b","e","d","/","d","Q","w","4","w","9",
      "W","g","X","c","Q">>
URL_v ==
    <<"h","t","t","p","s",":","/","/","w","w","w",".","y","o","u","t","u","b",
      "e",".","c","o","m","/","v","/","d","Q","w","4","w","9","W","g","X","c",
      "Q">>
URL_short_id ==
    <<"h","t","t","p","s",":","/","/","y","o","u","t","u",".","b","e","/","d",
      "Q","w","4","w","9","W","g","X","c">>
URL_short_query ==
    <<"h","t","t","p","s",":","/","/","y","o","u","t","u",".","b","e","/","d",
      "Q","w","4","w","?","W","g","X","c","Q">>
URL_channel ==
    <<"h","t","t","p","s",":","/","/","w","w","w",".","y","o","u","t","u","b",
      "e",".","c","o","m","/","c","h","a","n","n","e","l","/","U","C","x">>
URL_other ==
    <<"h","t","t","p","s",":","/","/","e","x","a","m","p","l","e",".","c","o",
      "m","/","w","a","t","c","h","?","v","=","d","Q","w","4","w","9","W","g",
      "X","c","Q">>

-----------------------------------------------------------------------------
(* get_all_detection_data (llm_generator.py) and its validation in main.py *)

DetectionFallback ==
    [detected_objects |-> <<>>, face_count |-> 0, detected_emotion |-> NoneVal]

\* truthiness of face.get("emotion")
HasEmotion(face) ==
    Get(face, "emotion", NoneVal) # NoneVal /\ Get(face, "emotion", NoneVal) # <<>>

\* "Get dominant emotion from the first face if available"
dominant_emotion(faces) ==
    LET expressive == { i \in 1..Len(faces) :
                          HasEmotion(faces[i]) /\ Lower(faces[i]["emotion"]) # E_neutral }
    IN  IF expressive # {}
        THEN faces[CHOOSE i \in expressive : \A j \in expressive : i <= j]["emotion"]
        ELSE IF faces # <<>> /\ HasEmotion(faces[1]) THEN faces[1]["emotion"]
        ELSE NoneVal

\* get_all_detection_data(image_bytes); gem is the outcome of the Gemini call
\* and of json.loads on its text.
get_all_detection_data(gem) ==
    IF gem.status = "raised" THEN DetectionFallback
    ELSE LET objs == Get(gem.value, "detected_objects", <<>>)
             faces == SelectSeq(objs, LAMBDA obj :
                         Lower(Get(obj, "label", <<>>)) \in
                             { L_face, <<"p","e","r","s","o","n">>, <<"h","u","m","a","n">> })
         IN  [detected_objects |-> objs,
              face_count |-> Len(faces),
              detected_emotion |-> dominant_emotion(faces)]

\* DetectedElement's required fields; confidence is held in hundredths
ValidatesAsDetectedElement(obj) ==
    /\ HasKey(obj, "label")
    /\ HasKey(obj, "bbox_normalized")
    /\ HasKey(obj, "confidence")
    /\ obj["confidence"] \in 0..100

\* DetectedElement.model_dump(): every field, None where not given
model_dump(obj) ==
    [label |-> obj["label"],
     bbox_normalized |-> obj["bbox_normalized"],
     confidence |-> obj["confidence"],
     emotion |-> Get(obj, "emotion", NoneVal),
     contrast_score_vs_bg |-> Get(obj, "contrast_score_vs_bg", NoneVal),
     position |-> Get(obj, "position", NoneVal),
     element_type |-> Get(obj, "element_type", NoneVal)]

\* GeminiAllDetection(**gemini_detection_dict), the fallback to [] when it
\* does not validate, and the conversion back to dicts
DetectionsList(gemini_detection_dict) ==
    LET objs == gemini_detection_dict.detected_objects
    IN  IF \A i \in 1..Len(objs) : ValidatesAsDetectedElement(objs[i])
        THEN [i \in 1..Len(objs) |-> model_dump(objs[i])]
        ELSE <<>>

-----------------------------------------------------------------------------
(* generate_final_feedback (llm_generator.py) *)

_get_fallback_feedback ==
    [attractiveness_score |-> 45,
     ai_suggestions |-> << "AI feedback generation failed (API error or timeout).",
                           "Ensure your key subject has maximum contrast against the background.",
                           "Simplify text to 3-5 words for better mobile visibility.",
                           "Use high-contrast color combinations (e.g., yellow text on black).",
                           "Crop the main subject to fill at least 70% of the thumbnail area." >>]

\* A plausible slip: the model declared without ge=0, le=100.
ValidatesAsLLMFeedback_NoRange(result_json) ==
    /\ HasKey(result_json, "attractiveness_score")
    /\ HasKey(result_json, "ai_suggestions")
    /\ Len(result_json["ai_suggestions"]) = 5

\* LLMFeedback(**result_json) validates
ValidatesAsLLMFeedback(result_json) ==
    /\ HasKey(result_json, "attractiveness_score")
    /\ HasKey(result_json, "ai_suggestions")
    /\ result_json["attractiveness_score"] \in 0..100
    /\ Len(result_json["ai_suggestions"]) = 5

\* generate_final_feedback(image_bytes, analysis_data); fb is the outcome of
\* the Gemini call and of json.loads on its text.
generate_final_feedback(fb) ==
    IF fb.status = "raised" THEN _get_fallback_feedback
    ELSE IF ~ValidatesAsLLMFeedback(fb.value) THEN _get_fallback_feedback
    ELSE [attractiveness_score |-> fb.value["attractiveness_score"],
          ai_suggestions |-> fb.value["ai_suggestions"]]

\* What Gemini's feedback call yields: an exception, text that is not JSON,
\* or the parsed JSON
FeedbackOutcomes ==
    { Raised("APIError"),
      Raised("JSONDecodeError"),
      Returned([attractiveness_score |-> 73,
                ai_suggestions |-> <<"s1", "s2", "s3", "s4", "s5">>]),
      Returned([attractiveness_score |-> 0,
                ai_suggestions |-> <<"s1", "s2", "s3", "s4", "s5">>]),
      Returned([attractiveness_score |-> 100,
                ai_suggestions |-> <<"s1", "s2", "s3", "s4", "s5">>]),
      Returned([attractiveness_score |-> 150,
                ai_suggestions |-> <<"s1", "s2", "s3", "s4", "s5">>]),
      Returned([attractiveness_score |-> -1,
                ai_suggestions |-> <<"s1", "s2", "s3", "s4", "s5">>]),
      Returned([attractiveness_score |-> 60,
                ai_suggestions |-> <<"s1", "s2", "s3", "s4">>]),
      Returned([attractiveness_score |-> 60,
                ai_suggestions |-> <<"s1", "s2", "s3", "s4", "s5", "s6">>]),
      Returned([attractiveness_score |-> 60]),
      Returned([ai_suggestions |-> <<"s1", "s2", "s3", "s4", "s5">>]) }

-----------------------------------------------------------------------------
(* Unit harness: one call of one function of image_processor.py *)

\* No request is being handled.
EndpointIdle ==
    /\ req = Unset
    /\ pc = "idle"
    /\ image_bytes = Unset
    /\ gemini_detections_list = Unset
    /\ analysis_data = Unset
    /\ llm_result = Unset
    /\ response = Unset
    /\ calls = <<>>

\* No invocation of run_full_analysis is running concurrently.
ConcIdle ==
    /\ heap = <<>>
    /\ inv = <<>>
    /\ tesseract_cmd = Unset

\* No server is running.
ServerIdle ==
    /\ handler = <<>>
    /\ pool = <<>>
    /\ loop = Unset

InitUnits ==
    /\ ret = Pending
    /\ EndpointIdle
    /\ ConcIdle
    /\ ServerIdle
    /\ \/ \E b \in PositionBoxes :
            call = [fn |-> "calculate_face_position", bbox_normalized |-> b]
       \/ \E i \in ContrastImages, b \in ContrastBoxes :
            call = [fn |-> "calculate_object_contrast", img |-> i, bbox_normalized |-> b]
       \/ \E sh \in Shapes, tb \in SeqsUpTo(TextBlockSet, MaxBlocks), o \in OcrOutcomes :
            call = [fn |-> "crop_and_extract_text", h |-> sh[1], w |-> sh[2],
                    text_blocks |-> tb, ocr |-> o]
       \/ \E ib \in AnalysisInputs, ds \in SeqsUpTo(DetectionSet, MaxDetections),
             o \in AnalysisOcrOutcomes :
            call = [fn |-> "run_full_analysis", image_bytes |-> ib,
                    gemini_detections |-> ds, ocr |-> o]
       \/ \E fb \in FeedbackOutcomes :
            call = [fn |-> "generate_final_feedback", fb |-> fb]
       \/ \E l \in ClassifierLabels :
            call = [fn |-> "classify_element_type", label |-> l]

CallFacePosition ==
    /\ call.fn = "calculate_face_position"
    /\ ret = Pending
    /\ ret' = Returned(calculate_face_position(call.bbox_normalized))
    /\ UNCHANGED <<call, endpointVars, concVars, serverVars>>

CallObjectContrast ==
    /\ call.fn = "calculate_object_contrast"
    /\ ret = Pending
    /\ ret' = calculate_object_contrast(call.img, call.bbox_normalized)
    /\ UNCHANGED <<call, endpointVars, concVars, serverVars>>

CallCropAndExtractText ==
    /\ call.fn = "crop_and_extract_text"
    /\ ret = Pending
    /\ ret' = Returned(crop_and_extract_text(call.h, call.w, call.text_blocks, call.ocr))
    /\ UNCHANGED <<call, endpointVars, concVars, serverVars>>

CallRunFullAnalysis ==
    /\ call.fn = "run_full_analysis"
    /\ ret = Pending
    /\ ret' = run_full_analysis(call.image_bytes, call.gemini_detections, call.ocr)
    /\ UNCHANGED <<call, endpointVars, concVars, serverVars>>

CallGenerateFinalFeedback ==
    /\ call.fn = "generate_final_feedback"
    /\ ret = Pending
    /\ ret' = Returned(generate_final_feedback(call.fb))
    /\ UNCHANGED <<call, endpointVars, concVars, serverVars>>

CallClassifyElementType ==
    /\ call.fn = "classify_element_type"
    /\ ret = Pending
    /\ ret' = Returned(classify_element_type(call.label))
    /\ UNCHANGED <<call, endpointVars, concVars, serverVars>>

NextUnits ==
    \/ CallFacePosition
    \/ CallObjectContrast
    \/ CallCropAndExtractText
    \/ CallRunFullAnalysis
    \/ CallGenerateFinalFeedback
    \/ CallClassifyElementType

SpecUnits == InitUnits /\ [][NextUnits]_vars

-----------------------------------------------------------------------------
(* Properties of the unit calls *)

IsCall(fn) == call.fn = fn /\ ret.status # "pending"
ReturnedFrom(fn) == call.fn = fn /\ ret.status = "returned"

Elements(seq) == { seq[i] : i \in 1..Len(seq) }

LabelOf(d) == Get(d, "label", <<>>)
HasTextKeyword(label) == \E k \in text_keywords : Contains(Lower(label), k)
HasFaceKeyword(label) == \E k \in face_keywords : Contains(Lower(label), k)

\* C1: in run_full_analysis every detection whose label contains a text
\* keyword (case-insensitively) is put in the text group and no element of
\* detected_faces carries such a label, even when the label also contains a
\* face keyword ("text_person").
C1_TextBeforeFace ==
    ReturnedFrom("run_full_analysis") =>
        \A d \in Elements(call.gemini_detections) :
            HasTextKeyword(LabelOf(d)) =>
                /\ d \in Elements(GroupOf(call.gemini_detections, "text"))
                /\ \A f \in Elements(ret.value.detected_faces) :
                        LabelOf(f) # LabelOf(d)
                /\ \A o \in Elements(ret.value.detected_objects) :
                        LabelOf(o) # LabelOf(d)

\* C1 witness: a returned analysis of a list holding "text_person", whose
\* label matches both keyword sets, next to a face that was kept.
C1_Witness ==
    /\ ReturnedFrom("run_full_analysis")
    /\ \E d \in Elements(call.gemini_detections) :
            LabelOf(d) = L_text_person /\ HasFaceKeyword(LabelOf(d))
    /\ ret.value.face_count = 1

\* The dominant emotion as the spec states it: the first non-null,
\* non-"neutral" emotion among the faces, else the first face's emotion,
\* else null.
EmotionOf(face) == Get(face, "emotion", NoneVal)
IsExpressive(face) ==
    EmotionOf(face) # NoneVal /\ Lower(EmotionOf(face)) # E_neutral
StatedDominantEmotion(faces) ==
    IF \E i \in 1..Len(faces) : IsExpressive(faces[i])
    THEN EmotionOf(faces[CHOOSE i \in 1..Len(faces) :
                            /\ IsExpressive(faces[i])
                            /\ \A j \in 1..(i - 1) : ~IsExpressive(faces[j])])
    ELSE IF faces # <<>> THEN EmotionOf(faces[1])
    ELSE NoneVal

\* C2: detected_emotion of the record is the emotion of the first face whose
\* emotion is non-null and not "neutral"; the first face's emotion if all are
\* neutral; null without faces.
C2_FirstExpressiveEmotion ==
    ReturnedFrom("run_full_analysis") =>
        ret.value.detected_emotion = StatedDominantEmotion(ret.value.detected_faces)

\* C2, the instance the claim names: faces [Neutral, Happy] give Happy.
C2_NeutralThenHappy ==
    ( /\ ReturnedFrom("run_full_analysis")
      /\ Len(ret.value.detected_faces) = 2
      /\ EmotionOf(ret.value.detected_faces[1]) = E_Neutral
      /\ EmotionOf(ret.value.detected_faces[2]) = E_Happy )
    => ret.value.detected_emotion = E_Happy

\* The denormalized box clamped to the image, before any widening.
ClampedDenormalized(h, w, box) ==
    LET d == Denormalize(h, w, box)
    IN  [x1 |-> Max(0, Min(d.x1, w)), y1 |-> Max(0, Min(d.y1, h)),
         x2 |-> Max(0, Min(d.x2, w)), y2 |-> Max(0, Min(d.y2, h))]
IsDegenerate(h, w, box) ==
    LET c == ClampedDenormalized(h, w, box)
    IN  c.x1 = c.x2 \/ c.y1 = c.y2

\* C3: a box that is degenerate after denormalization and clamping
\* (x1 == x2 or y1 == y2) gets exactly the neutral contrast 0.5.
C3_DegenerateBoxIsNeutral ==
    ( /\ IsCall("calculate_object_contrast")
      /\ Len(call.bbox_normalized) = 4
      /\ IsDegenerate(call.img.h, call.img.w, call.bbox_normalized) )
    => ret = Returned(500)

\* C3, second half: the element with the degenerate box is in the record
\* with contrast_score_vs_bg = 0.5.
C3_DegenerateElementKeptNeutral ==
    ReturnedFrom("run_full_analysis") =>
        \A e \in Elements(ret.value.detected_faces) \cup Elements(ret.value.detected_objects) :
            ( /\ HasKey(e, "bbox_normalized")
              /\ Len(e["bbox_normalized"]) = 4
              /\ IsDegenerate(call.image_bytes.img.h, call.image_bytes.img.w,
                              e["bbox_normalized"]) )
            => e["contrast_score_vs_bg"] = 500

\* C4: for a decodable image run_full_analysis never raises, whatever the
\* detection list, a malformed bbox_normalized included.
C4_OnlyDecodeIsFatal ==
    ( IsCall("run_full_analysis") /\ call.image_bytes.decodable )
    => ret.status = "returned"

NineLabels ==
    { "top-left", "top-center", "top-right",
      "center-left", "center", "center-right",
      "bottom-left", "bottom-center", "bottom-right" }

OutputElements ==
    Elements(ret.value.detected_faces) \cup Elements(ret.value.detected_objects)

\* C5 as stated: every element of detected_faces and detected_objects has
\* one of the nine position labels.
C5_PositionIsOneOfNine ==
    ReturnedFrom("run_full_analysis") =>
        \A e \in OutputElements : e["position"] \in NineLabels

\* C5 amended: an element with a bbox_normalized has one of the nine labels,
\* an element without one has position "unknown".
C5_PositionNineOrUnknown ==
    ReturnedFrom("run_full_analysis") =>
        \A e \in OutputElements :
            IF HasKey(e, "bbox_normalized")
            THEN e["position"] \in NineLabels
            ELSE e["position"] = "unknown"

\* C5 witness: a record holding an element placed in the middle cell and an
\* element without a box.
C5_Witness ==
    /\ ReturnedFrom("run_full_analysis")
    /\ \E e \in OutputElements : HasKey(e, "bbox_normalized") /\ e["position"] = "center"
    /\ \E e \in OutputElements : ~HasKey(e, "bbox_normalized")

\* The 3 x 3 grid of labels, rows top to bottom, columns left to right.
PositionGrid ==
    << <<"top-left", "top-center", "top-right">>,
       <<"center-left", "center", "center-right">>,
       <<"bottom-left", "bottom-center", "bottom-right">> >>
\* bucket 1, 2, 3 of a centre c given as its double: c < 333, 333 <= c < 666, else
BucketOfDoubled(s) == 1 + (IF s >= 666 THEN 1 ELSE 0) + (IF s >= 1332 THEN 1 ELSE 0)

\* C6: calculate_face_position buckets the box centre (cx, cy) at 333 and 666
\* on each axis and names the cell of the 3 x 3 grid; centre (500,500) is
\* "center", (100,100) "top-left", (900,500) "center-right", (500,900)
\* "bottom-center".
C6_PositionBuckets ==
    ReturnedFrom("calculate_face_position") =>
        LET b == call.bbox_normalized
            sx == b[1] + b[3]
            sy == b[2] + b[4]
        IN  /\ ret.value = PositionGrid[BucketOfDoubled(sy)][BucketOfDoubled(sx)]
            /\ (sx = 1000 /\ sy = 1000) => ret.value = "center"
            /\ (sx = 200 /\ sy = 200) => ret.value = "top-left"
            /\ (sx = 1800 /\ sy = 1000) => ret.value = "center-right"
            /\ (sx = 1000 /\ sy = 1800) => ret.value = "bottom-center"

\* C6 witness: a box whose centre lies exactly on the boundary 333 of both
\* axes has been placed.
C6_Witness ==
    /\ ReturnedFrom("calculate_face_position")
    /\ call.bbox_normalized = <<333, 333, 333, 333>>
    /\ ret.value = "center"

IsValidBox(box) == Len(box) = 4 /\ \A i \in 1..4 : box[i] \in 0..1000

\* C7: for a valid bbox_normalized (4 integers in [0,1000]) the contrast
\* score is returned and lies in [0,1].
C7_ContrastInUnitInterval ==
    ( IsCall("calculate_object_contrast") /\ IsValidBox(call.bbox_normalized) )
    => ( ret.status = "returned" /\ ret.value \in 0..1000 )

\* C7 witness: a score strictly inside the interval and a score at its
\* upper end are both computed; this one is strictly inside.
C7_Witness ==
    /\ ReturnedFrom("calculate_object_contrast")
    /\ IsValidBox(call.bbox_normalized)
    /\ ret.value = 833

\* A block the aggregation must skip, as the claim lists them: no
\* bbox_normalized, a wrong length, or zero or negative area once denormalized.
IsInvalidBlock(h, w, block) ==
    \/ ~HasKey(block, "bbox_normalized")
    \/ Len(block["bbox_normalized"]) # 4
    \/ LET box == block["bbox_normalized"]
       IN  \/ TruncDiv(box[3] * w, 1000) <= TruncDiv(box[1] * w, 1000)
           \/ TruncDiv(box[4] * h, 1000) <= TruncDiv(box[2] * h, 1000)

\* C8: given a list with no valid box (empty, or only invalid blocks),
\* crop_and_extract_text returns text "None", word count 0 and no crop
\* bytes, crops nothing and makes no OCR call.
C8_NoValidBoxGivesSentinel ==
    ( /\ IsCall("crop_and_extract_text")
      /\ \A blk \in Elements(call.text_blocks) : IsInvalidBlock(call.h, call.w, blk) )
    => /\ ret.status = "returned"
       /\ ret.value.result.text_content = STR_None
       /\ ret.value.result.word_count = 0
       /\ ret.value.result.cropped_image_bytes = <<>>
       /\ ret.value.region = <<>>
       /\ ~ret.value.ocr_called

\* C8 witness: the call was made on a non-empty list whose only box has zero
\* width, and came back with the sentinel.
C8_Witness ==
    /\ ReturnedFrom("crop_and_extract_text")
    /\ call.text_blocks = << [bbox_normalized |-> <<500, 500, 500, 900>>] >>
    /\ call.h = 1000
    /\ ret.value.result.text_content = STR_None

SetMin(S) == CHOOSE x \in S : \A y \in S : x <= y
SetMax(S) == CHOOSE x \in S : \A y \in S : x >= y
Clamp(v, lo, hi) == Max(lo, Min(v, hi))

\* The denormalized boxes of the valid blocks of the call.
ValidBoxes ==
    { Denormalize(call.h, call.w, blk["bbox_normalized"]) :
        blk \in { b \in Elements(call.text_blocks) : ~IsInvalidBlock(call.h, call.w, b) } }

\* The union (bounding box) of the valid boxes.
UnionBox ==
    [x1 |-> SetMin({ d.x1 : d \in ValidBoxes }), y1 |-> SetMin({ d.y1 : d \in ValidBoxes }),
     x2 |-> SetMax({ d.x2 : d \in ValidBoxes }), y2 |-> SetMax({ d.y2 : d \in ValidBoxes })]

\* C9 as stated: with a valid box present, the cropped region is the union of
\* the valid boxes, expanded by 15 pixels and clamped to [0,w] x [0,h].
C9_CropIsPaddedUnion ==
    ( IsCall("crop_and_extract_text") /\ ValidBoxes # {} )
    => ret.value.region =
         << Clamp(UnionBox.x1 - 15, 0, call.w), Clamp(UnionBox.y1 - 15, 0, call.h),
            Clamp(UnionBox.x2 + 15, 0, call.w), Clamp(UnionBox.y2 + 15, 0, call.h) >>

\* Every valid block of the call has its normalized coordinates in [0,1000].
ValidBlocksInRange ==
    \A blk \in Elements(call.text_blocks) :
        ~IsInvalidBlock(call.h, call.w, blk) =>
            \A i \in 1..4 : blk["bbox_normalized"][i] \in 0..1000

\* C9 amended: with a valid box present, the cropped region is the union of
\* the valid boxes with its lower corner capped at (w,h) and its upper corner
\* floored at (0,0), expanded by 15 pixels and clamped to the image; when the
\* valid boxes have coordinates in [0,1000] that is the union expanded by 15
\* and clamped; boxes [100,100,300,300] and [600,600,800,800] on a
\* 1000 x 1000 image give [85,85,815,815].
C9_CropIsPaddedAggregate ==
    ( IsCall("crop_and_extract_text") /\ ValidBoxes # {} )
    => /\ ret.status = "returned"
       /\ ret.value.ocr_called
       /\ ret.value.region =
            << Max(0, Min(call.w, UnionBox.x1) - 15), Max(0, Min(call.h, UnionBox.y1) - 15),
               Min(call.w, Max(0, UnionBox.x2) + 15), Min(call.h, Max(0, UnionBox.y2) + 15) >>
       /\ ValidBlocksInRange =>
            ret.value.region =
              << Clamp(UnionBox.x1 - 15, 0, call.w), Clamp(UnionBox.y1 - 15, 0, call.h),
                 Clamp(UnionBox.x2 + 15, 0, call.w), Clamp(UnionBox.y2 + 15, 0, call.h) >>
       /\ ( /\ call.h = 1000 /\ call.w = 1000
            /\ { blk["bbox_normalized"] : blk \in
                   { b \in Elements(call.text_blocks) : ~IsInvalidBlock(call.h, call.w, b) } }
                 = { <<100, 100, 300, 300>>, <<600, 600, 800, 800>> } )
          => ret.value.region = <<85, 85, 815, 815>>

\* C9 witness: the two boxes of the example on the 1000 x 1000 image, cropped
\* to [85,85,815,815].
C9_Witness ==
    /\ ReturnedFrom("crop_and_extract_text")
    /\ call.h = 1000 /\ call.w = 1000
    /\ call.text_blocks =
         << [bbox_normalized |-> <<100, 100, 300, 300>>],
            [bbox_normalized |-> <<600, 600, 800, 800>>, text_label |-> <<"b">>] >>
    /\ ret.value.region = <<85, 85, 815, 815>>

\* The indices of the call's detections that are faces: a face keyword in
\* the label and no text keyword.
FaceIndices ==
    { i \in 1..Len(call.gemini_detections) :
        /\ ~HasTextKeyword(LabelOf(call.gemini_detections[i]))
        /\ HasFaceKeyword(LabelOf(call.gemini_detections[i])) }

\* C11: in every record returned by run_full_analysis, face_count is the
\* number of detections classified as face and the length of detected_faces.
C11_FaceCountIsFaces ==
    ReturnedFrom("run_full_analysis") =>
        /\ ret.value.face_count = Cardinality(FaceIndices)
        /\ ret.value.face_count = Len(ret.value.detected_faces)

\* C11 witness: a record for two faces, one of them without a box, next to
\* no other element.
C11_Witness ==
    /\ ReturnedFrom("run_full_analysis")
    /\ ret.value.face_count = 2
    /\ Len(call.gemini_detections) = 2
    /\ \E i \in 1..2 : ~HasKey(call.gemini_detections[i], "bbox_normalized")

\* text_content and word_count of the returned text data or record
TextFieldsOk(d) ==
    /\ d.text_content # <<>>
    /\ (d.text_content = STR_None => d.word_count = 0)

\* C12: text_content is never the empty string, and whenever it is the
\* "None" sentinel word_count is 0, for every OCR output.
C12_SentinelMeansNoText ==
    /\ ReturnedFrom("crop_and_extract_text") => TextFieldsOk(ret.value.result)
    /\ ReturnedFrom("run_full_analysis") => TextFieldsOk(ret.value)

\* C18: every result of generate_final_feedback, from Gemini's answer or from
\* a fallback, has an integer attractiveness_score in 0..100 and exactly 5
\* suggestions.
C18_FeedbackInRange ==
    ReturnedFrom("generate_final_feedback") =>
        /\ ret.value.attractiveness_score \in 0..100
        /\ Len(ret.value.ai_suggestions) = 5

\* C18 witness: Gemini's own answer, with the highest score allowed, was
\* returned unchanged.
C18_Witness ==
    /\ ReturnedFrom("generate_final_feedback")
    /\ call.fb.status = "returned"
    /\ ret.value.attractiveness_score = 100
    /\ ret.value.ai_suggestions = call.fb.value["ai_suggestions"]

\* C20: classify_element_type(label) is the type that run_full_analysis's
\* categorization gives a detection with that label.
C20_ClassifierAgrees ==
    ReturnedFrom("classify_element_type") =>
        ret.value = ElementGroup([label |-> call.label])

\* The indices of the call's detections that are objects: neither a text
\* keyword nor a face keyword in the label.
ObjectIndices ==
    { i \in 1..Len(call.gemini_detections) :
        /\ ~HasTextKeyword(LabelOf(call.gemini_detections[i]))
        /\ ~HasFaceKeyword(LabelOf(call.gemini_detections[i])) }

\* The place of detection i among the detections with indices in S.
Rank(S, i) == Cardinality({ j \in S : j <= i })

\* out is the detection d with the three default fields added and nothing
\* else changed.
IsKeptWithDefaults(out, d, element_type) ==
    /\ DOMAIN out = DOMAIN d \cup { "contrast_score_vs_bg", "position", "element_type" }
    /\ \A k \in DOMAIN d \ { "contrast_score_vs_bg", "position", "element_type" } :
          out[k] = d[k]
    /\ out["contrast_score_vs_bg"] = 500
    /\ out["position"] = "unknown"
    /\ out["element_type"] = element_type

\* the detections with indices in S that carry no bbox_normalized are in
\* list, each at the place it has among the detections of S, with the defaults
UnboxedKeptInPlace(S, list, element_type) ==
    \A i \in S :
        ~HasKey(call.gemini_detections[i], "bbox_normalized") =>
            /\ Rank(S, i) <= Len(list)
            /\ IsKeptWithDefaults(list[Rank(S, i)], call.gemini_detections[i],
                                  element_type)

\* C21: a face or object detection without bbox_normalized is in the output
\* list of its type, at its place, with contrast_score_vs_bg 0.5, position
\* "unknown" and element_type set; no contrast or position is computed for
\* it, so the missing key never raises.
C21_UnboxedElementKeptWithDefaults ==
    IsCall("run_full_analysis") =>
        /\ ret # Raised("KeyError")
        /\ ret.status = "returned" =>
              /\ UnboxedKeptInPlace(FaceIndices, ret.value.detected_faces, "face")
              /\ UnboxedKeptInPlace(ObjectIndices, ret.value.detected_objects, "object")

\* C21 witness: a record for a boxed logo followed by a logo without a box,
\* which is the second of detected_objects.
C21_Witness ==
    /\ ReturnedFrom("run_full_analysis")
    /\ Len(call.gemini_detections) = 2
    /\ HasKey(call.gemini_detections[1], "bbox_normalized")
    /\ ~HasKey(call.gemini_detections[2], "bbox_normalized")
    /\ ObjectIndices = { 1, 2 }
    /\ ret.value.detected_objects[2]["position"] = "unknown"

\* No pixel of the call's image lies outside the clamped pixel box of the
\* call's bbox_normalized.
NoExteriorPixel ==
    LET b == ContrastBox(call.img.w, call.img.h, call.bbox_normalized)
    IN  \A x \in 0..(call.img.w - 1), y \in 0..(call.img.h - 1) :
            b.x1 <= x /\ x < b.x2 /\ b.y1 <= y /\ y < b.y2

\* C22: when the clamped pixel box covers the whole image, so that the
\* exterior mask is empty, calculate_object_contrast returns 0.5.
C22_WholeImageIsNeutral ==
    ( /\ IsCall("calculate_object_contrast")
      /\ Len(call.bbox_normalized) >= 4
      /\ NoExteriorPixel )
    => ret = Returned(500)

\* C22 witness: the box [0,0,1000,1000] on a 2 x 2 image that is not of one
\* colour gave 0.5.
C22_Witness ==
    /\ ReturnedFrom("calculate_object_contrast")
    /\ call.bbox_normalized = <<0, 0, 1000, 1000>>
    /\ call.img.w = 2 /\ call.img.h = 2
    /\ call.img.px[1] # call.img.px[4]
    /\ ret.value = 500

\* s has its whitespace collapsed: the only whitespace is a single space
\* between two words.
IsCollapsed(s) ==
    \A i \in 1..Len(s) :
        s[i] \in Whitespace =>
            /\ s[i] = " "
            /\ 1 < i /\ i < Len(s)
            /\ s[i + 1] \notin Whitespace

\* text_content is collapsed and word_count counts its words
TextIsNormalized(d) ==
    /\ IsCollapsed(d.text_content)
    /\ d.word_count = WordCount(d.text_content)

\* C23: when the OCR has read some text, the text_content of the text data
\* and of the record is that text with internal whitespace collapsed, and
\* word_count is the number of its whitespace-separated words.
C23_TextIsCollapsed ==
    ( /\ IsCall("crop_and_extract_text") \/ IsCall("run_full_analysis")
      /\ call.ocr.status = "returned"
      /\ Strip(call.ocr.value) # <<>>
      /\ ret.status = "returned" )
    => /\ call.fn = "crop_and_extract_text" /\ ret.value.ocr_called
            => TextIsNormalized(ret.value.result)
       /\ call.fn = "run_full_analysis" /\ ret.value.cropped_image_bytes # <<>>
            => TextIsNormalized(ret.value)

\* The indices of the call's detections that are text: a text keyword in
\* the label.
TextIndices ==
    { i \in 1..Len(call.gemini_detections) :
        HasTextKeyword(LabelOf(call.gemini_detections[i])) }

\* list holds one element for each detection with an index in S, in the
\* order of the detections, each with the detection's own fields and the
\* given element_type.
IsImageOf(S, list, element_type) ==
    /\ Len(list) = Cardinality(S)
    /\ \A i \in S :
          LET d == call.gemini_detections[i]
              e == list[Rank(S, i)]
          IN  /\ \A k \in DOMAIN d \ { "contrast_score_vs_bg", "position", "element_type" } :
                    k \in DOMAIN e /\ e[k] = d[k]
              /\ e["element_type"] = element_type

\* C24: run_full_analysis partitions the detections into text, faces and
\* objects: the lengths of detected_faces and detected_objects and the number
\* of text detections add up to the number of detections, no text detection
\* is in an output list, both lists keep the input order, and every element
\* carries the element_type of its list.
C24_DetectionsPartitioned ==
    ReturnedFrom("run_full_analysis") =>
        /\ Len(ret.value.detected_faces) + Len(ret.value.detected_objects)
              + Cardinality(TextIndices) = Len(call.gemini_detections)
        /\ IsImageOf(FaceIndices, ret.value.detected_faces, "face")
        /\ IsImageOf(ObjectIndices, ret.value.detected_objects, "object")
        /\ \A e \in OutputElements : ~HasTextKeyword(LabelOf(e))
        /\ \A e \in Elements(ret.value.detected_faces) : e["element_type"] = "face"
        /\ \A e \in Elements(ret.value.detected_objects) : e["element_type"] = "object"

\* C24 witness: a record for a title followed by a logo: one text
\* detection, no face, and the logo as the only object.
C24_Witness ==
    /\ ReturnedFrom("run_full_analysis")
    /\ TextIndices = { 1 }
    /\ ObjectIndices = { 2 }
    /\ ret.value.detected_faces = <<>>
    /\ Len(ret.value.detected_objects) = 1
    /\ LabelOf(ret.value.detected_objects[1]) = L_logo

\* C25: whenever crop_and_extract_text crops, the cropped region lies in
\* the image and has positive area, 0 <= x1 < x2 <= w and 0 <= y1 < y2 <= h,
\* also for boxes with normalized coordinates below 0 or above 1000.
C25_CropInsideImage ==
    ( IsCall("crop_and_extract_text") /\ ret.value.region # <<>> )
    => LET r == ret.value.region
       IN  /\ 0 <= r[1] /\ r[1] < r[3] /\ r[3] <= call.w
           /\ 0 <= r[2] /\ r[2] < r[4] /\ r[4] <= call.h

\* C25 witness: a box lying beyond the image ([1100,1100,1300,1300] on
\* 1000 x 1000 pixels, next to nothing else) was cropped at the image's
\* lower right corner.
C25_Witness ==
    /\ ReturnedFrom("crop_and_extract_text")
    /\ call.h = 1000 /\ call.w = 1000
    /\ call.text_blocks = << [bbox_normalized |-> <<1100, 1100, 1300, 1300>>] >>
    /\ ret.value.region = <<985, 985, 1000, 1000>>

-----------------------------------------------------------------------------
(* The request handler analyze_thumbnail (main.py) *)

\* Image bytes a request can carry or a thumbnail URL can serve
EndpointImages == AnalysisInputs

\* youtube_url form values: absent, empty, or a URL
RequestUrls ==
    { NoneVal, <<>>, URL_watch, URL_short, URL_embed, URL_v, URL_short_id,
      URL_short_query, URL_channel, URL_other }

\* file form values: absent, or an upload with its content
RequestFiles == { Unset } \cup { [content |-> b] : b \in EndpointImages }

\* What Gemini's detection call yields: an exception, or the parsed JSON
GeminiOutcomes ==
    { Raised("APIError"),
      Returned([detected_objects |-> <<>>]),
      Returned([note |-> <<>>]),
      Returned([detected_objects |->
        << [label |-> L_face, bbox_normalized |-> <<0, 0, 500, 500>>,
            confidence |-> 90, emotion |-> E_Neutral],
           [label |-> L_Person, bbox_normalized |-> <<500, 0, 1000, 500>>,
            confidence |-> 80, emotion |-> E_Happy] >>]),
      Returned([detected_objects |->
        << [label |-> L_text_person, bbox_normalized |-> <<0, 0, 1000, 500>>,
            confidence |-> 70],
           [label |-> L_logo, bbox_normalized |-> <<0, 0, 0, 1000>>,
            confidence |-> 60] >>]),
      Returned([detected_objects |->
        << [label |-> L_face, bbox_normalized |-> <<0, 0, 500>>,
            confidence |-> 80] >>]),
      Returned([detected_objects |->
        << [label |-> L_logo, bbox_normalized |-> <<0, 0, 500, 500>>] >>]) }

HttpError(status_code, detail) == [status |-> status_code, detail |-> detail]

\* A call made through run_in_threadpool, as the handler sees it: the
\* function, its arguments, what it returned or raised, and (external) the
\* outcome of the remote or OCR call the function made inside.
ThreadpoolCall(fn, args, external, result) ==
    [fn |-> fn, args |-> args, external |-> external, result |-> result]

Init ==
    /\ call = [fn |-> "none"]
    /\ ret = Pending
    /\ \E u \in RequestUrls, f \in RequestFiles : req = [youtube_url |-> u, file |-> f]
    /\ pc = "start"
    /\ image_bytes = Unset
    /\ gemini_detections_list = Unset
    /\ analysis_data = Unset
    /\ llm_result = Unset
    /\ response = Unset
    /\ calls = <<>>
    /\ ConcIdle
    /\ ServerIdle

UrlGiven == req.youtube_url # NoneVal /\ req.youtube_url # <<>>

\* Input validation and the synchronous start of STEP 0, up to its await.
Receive ==
    /\ pc = "start"
    /\ IF ~UrlGiven /\ ~IsSet(req.file)
       THEN /\ response' = HttpError(400, "Either youtube_url or file must be provided")
            /\ pc' = "done"
       ELSE IF UrlGiven
       THEN IF extract_youtube_thumbnail_url(req.youtube_url) = NoneVal
            THEN /\ response' = HttpError(400, "Invalid YouTube URL format")
                 /\ pc' = "done"
            ELSE /\ pc' = "fetching"
                 /\ UNCHANGED response
       ELSE /\ pc' = "reading"
            /\ UNCHANGED response
    /\ UNCHANGED <<unitVars, concVars, serverVars, req, image_bytes,
                   gemini_detections_list, analysis_data, llm_result, calls>>

\* await fetch_image_bytes(thumbnail_url): the bytes served, or an httpx error,
\* which the handler's "except Exception" turns into a 500.
FetchImage ==
    /\ pc = "fetching"
    /\ \/ \E b \in EndpointImages :
            /\ image_bytes' = b
            /\ pc' = "detecting"
            /\ UNCHANGED response
       \/ /\ response' = HttpError(500, "Analysis failed")
          /\ pc' = "done"
          /\ UNCHANGED image_bytes
    /\ UNCHANGED <<unitVars, concVars, serverVars, req, gemini_detections_list,
                   analysis_data, llm_result, calls>>

\* await file.read()
ReadFile ==
    /\ pc = "reading"
    /\ image_bytes' = req.file.content
    /\ pc' = "detecting"
    /\ UNCHANGED <<unitVars, concVars, serverVars, req, gemini_detections_list,
                   analysis_data, llm_result, response, calls>>

\* STEP 1: get_all_detection_data in the thread pool, validation, model_dump.
Detect ==
    /\ pc = "detecting"
    /\ \E gem \in GeminiOutcomes :
         \E d \in { get_all_detection_data(gem) } :
           /\ calls' = Append(calls, ThreadpoolCall("get_all_detection_data",
                                         <<image_bytes>>, gem, Returned(d)))
           /\ gemini_detections_list' = DetectionsList(d)
    /\ pc' = "analyzing"
    /\ UNCHANGED <<unitVars, concVars, serverVars, req, image_bytes, analysis_data,
                   llm_result, response>>

\* The arguments of run_full_analysis at its call
AnalysisArgs == <<image_bytes, gemini_detections_list>>

\* STEP 2: run_full_analysis in the thread pool; an exception reaches the
\* handler's "except Exception" and becomes a 500.
Analyze ==
    /\ pc = "analyzing"
    /\ \E o \in AnalysisOcrOutcomes :
          \E r \in { run_full_analysis(AnalysisArgs[1], AnalysisArgs[2], o) } :
              /\ calls' = Append(calls, ThreadpoolCall("run_full_analysis",
                                            AnalysisArgs, o, r))
              /\ IF r.status = "raised"
                 THEN /\ response' = HttpError(500, "Analysis failed")
                      /\ pc' = "done"
                      /\ UNCHANGED analysis_data
                 ELSE /\ analysis_data' = r.value
                      /\ pc' = "feedback"
                      /\ UNCHANGED response
    /\ UNCHANGED <<unitVars, concVars, serverVars, req, image_bytes,
                   gemini_detections_list, llm_result>>

\* A plausible slip: the handler deriving face_count itself, from the raw
\* detections, before handing the record on.
FeedbackArgs_Rederived ==
    <<image_bytes,
      [analysis_data EXCEPT !.face_count = Len(gemini_detections_list)]>>

\* The arguments of generate_final_feedback at its call
FeedbackArgs == <<image_bytes, analysis_data>>

\* STEP 3: generate_final_feedback in the thread pool.
Feedback ==
    /\ pc = "feedback"
    /\ \E fb \in FeedbackOutcomes :
         \E f \in { generate_final_feedback(fb) } :
           /\ calls' = Append(calls, ThreadpoolCall("generate_final_feedback",
                                         FeedbackArgs, fb, Returned(f)))
           /\ llm_result' = f
    /\ pc' = "responding"
    /\ UNCHANGED <<unitVars, concVars, serverVars, req, image_bytes,
                   gemini_detections_list, analysis_data, response>>

\* STEP 4: the AnalysisResult built from analysis_data and llm_result.
Respond ==
    /\ pc = "responding"
    /\ response' =
         [status |-> 200,
          body |-> [word_count |-> analysis_data.word_count,
                    text_content |-> analysis_data.text_content,
                    face_count |-> analysis_data.face_count,
                    detected_emotion |-> analysis_data.detected_emotion,
                    detected_faces |-> analysis_data.detected_faces,
                    detected_objects |-> analysis_data.detected_objects,
                    attractiveness_score |-> llm_result.attractiveness_score,
                    ai_suggestions |-> llm_result.ai_suggestions]]
    /\ pc' = "done"
    /\ UNCHANGED <<unitVars, concVars, serverVars, req, image_bytes,
                   gemini_detections_list, analysis_data, llm_result, calls>>

Next ==
    \/ Receive
    \/ FetchImage
    \/ ReadFile
    \/ Detect
    \/ Analyze
    \/ Feedback
    \/ Respond

Spec == Init /\ [][Next]_vars

\* C10: when the image bytes cannot be decoded, run_full_analysis yields no
\* record (analysis_data stays unbound, feedback is never generated) and the
\* request ends with an error response carrying no AnalysisResult.
C10_DecodeFailureIsFatal ==
    ( /\ pc \in { "feedback", "responding", "done" }
      /\ IsSet(image_bytes)
      /\ ~image_bytes.decodable )
    => /\ pc = "done"
       /\ ~IsSet(analysis_data)
       /\ ~IsSet(llm_result)
       /\ response.status = 500
       /\ ~HasKey(response, "body")

\* C10 witness: a request whose upload is not an image has gone through
\* detection and analysis and has been answered.
C10_Witness ==
    /\ pc = "done"
    /\ IsSet(image_bytes)
    /\ ~image_bytes.decodable
    /\ response.status = 500

-----------------------------------------------------------------------------
(* Properties of the request *)

CallsOf(fn) == { i \in 1..Len(calls) : calls[i].fn = fn }

\* The detection call failed: Gemini raised, or returned data that is not a
\* list of well-formed detections (a missing field, a confidence out of
\* range, a box that has not four entries).
DetectionFailed(c) ==
    \/ c.external.status = "raised"
    \/ /\ HasKey(c.external.value, "detected_objects")
       /\ \E i \in 1..Len(c.external.value["detected_objects"]) :
            LET obj == c.external.value["detected_objects"][i]
            IN  \/ ~ValidatesAsDetectedElement(obj)
                \/ Len(obj["bbox_normalized"]) # 4

\* The feedback call failed: Gemini raised, or its text was no JSON, or the
\* JSON is no LLMFeedback.
FeedbackFailed(c) ==
    \/ c.external.status = "raised"
    \/ ~HasKey(c.external.value, "attractiveness_score")
    \/ ~HasKey(c.external.value, "ai_suggestions")
    \/ c.external.value["attractiveness_score"] \notin 0..100
    \/ Len(c.external.value["ai_suggestions"]) # 5

\* C13: a failure of the detection call is not propagated: for an image that
\* decodes, the request the detection failed for still ends with a 200.
C13_DetectionFailureNotPropagated ==
    ( /\ pc = "done"
      /\ Len(calls) >= 1
      /\ DetectionFailed(calls[1])
      /\ image_bytes.decodable )
    => /\ response.status = 200
       /\ response.body.detected_faces = <<>>
       /\ response.body.detected_objects = <<>>

\* C13, the OCR and feedback calls: when Tesseract raised inside an analysis
\* that ran OCR, the result says "OCR Failed" with 0 words; when feedback
\* failed, the result carries score 45 and five suggestions.
C13_OcrAndFeedbackFallbacks ==
    ( /\ pc = "done"
      /\ Len(calls) = 3 )
    => /\ response.status = 200
       /\ ( /\ calls[2].external.status = "raised"
            /\ calls[2].result.value.text_content # STR_None )
          => /\ response.body.text_content = STR_OCR_Failed
             /\ response.body.word_count = 0
       /\ FeedbackFailed(calls[3])
          => /\ response.body.attractiveness_score = 45
             /\ Len(response.body.ai_suggestions) = 5

\* C16: the steps of a request are ordered: detection, then run_full_analysis
\* on the detections it gave, then feedback on the record the analysis
\* returned, and the response only after feedback, built from both.
C16_StepsInOrder ==
    /\ \A i \in 1..Len(calls) :
         calls[i].fn = <<"get_all_detection_data", "run_full_analysis",
                         "generate_final_feedback">>[i]
    /\ Len(calls) >= 2 =>
         calls[2].args = <<image_bytes, DetectionsList(calls[1].result.value)>>
    /\ Len(calls) >= 3 =>
         /\ calls[2].result.status = "returned"
         /\ calls[3].args = <<image_bytes, calls[2].result.value>>
    /\ (IsSet(response) /\ response.status = 200) =>
         /\ Len(calls) = 3
         /\ response.body.face_count = calls[2].result.value.face_count
         /\ response.body.text_content = calls[2].result.value.text_content
         /\ response.body.attractiveness_score =
                calls[3].result.value.attractiveness_score

\* C16 witness: a request answered 200 after its three calls, for detections
\* that hold no face.
C16_Witness ==
    /\ pc = "done"
    /\ response.status = 200
    /\ Len(calls) = 3
    /\ Len(calls[2].args[2]) = 2
    /\ response.body.face_count = 0

\* The shapes of a video id in a URL, as the claim lists them
VideoIdShapes ==
    { <<"w","a","t","c","h","?","v","=">>, <<"y","o","u","t","u",".","b","e","/">>,
      <<"e","m","b","e","d","/">>, <<"/","v","/">> }

\* url holds one of the shapes followed by an 11-character id
HasVideoIdShape(url) ==
    \E q \in VideoIdShapes : \E i \in 0..Len(url) :
        /\ i + Len(q) + 11 <= Len(url)
        /\ SubSeq(url, i + 1, i + Len(q)) = q
        /\ \A j \in 1..11 : url[i + Len(q) + j] \notin IdExcluded

\* C17: for a URL with none of the known video-id shapes,
\* extract_youtube_thumbnail_url returns None and the request is answered
\* with 400, with no detection, analysis or feedback call and no image fetched.
C17_UnknownUrlIs400 ==
    ( /\ UrlGiven
      /\ ~HasVideoIdShape(req.youtube_url) )
    => /\ extract_youtube_thumbnail_url(req.youtube_url) = NoneVal
       /\ pc \in { "start", "done" }
       /\ calls = <<>>
       /\ ~IsSet(image_bytes)
       /\ pc = "done" => response = HttpError(400, "Invalid YouTube URL format")

\* C17 witness: the request with a youtu.be URL whose id is cut by a "?" has
\* been answered.
C17_Witness ==
    /\ req.youtube_url = URL_short_query
    /\ pc = "done"
    /\ response.status = 400

-----------------------------------------------------------------------------
(* Concurrent invocations of run_full_analysis (worker threads)            *)
(*                                                                         *)
(* The dicts of a detection list are objects: heap[a] is the dict at       *)
(* address a, and a list of detections is a sequence of addresses. Each    *)
(* invocation has a frame of locals; the threads interleave between the    *)
(* steps of run_full_analysis and between the iterations of its loops.     *)

\* The module global set at import and read by pytesseract at every OCR call
TESSERACT_EXECUTABLE_PATH == "C:\\Program Files\\Tesseract-OCR\\tesseract.exe"

\* Two invocations, each in a worker thread of its own
Invocations == { "A", "B" }

\* The dicts at the addresses addrs
Deref(h, addrs) == [i \in 1..Len(addrs) |-> h[addrs[i]]]

\* A plausible slip: "face_copy = face_elem", the same object under a new name.
dict_copy_Alias(h, a) == [heap |-> h, addr |-> a]

\* face_elem.copy(): a new dict with the same items
dict_copy(h, a) == [heap |-> Append(h, h[a]), addr |-> Len(h) + 1]

\* The detections and the images the concurrent invocations are given
ConcDetections ==
    { [label |-> L_face, bbox_normalized |-> <<0, 0, 500, 500>>, emotion |-> E_Happy],
      [label |-> L_logo],
      [label |-> L_Title, bbox_normalized |-> <<0, 500, 1000, 1000>>] }
ConcInputs ==
    { [image_bytes |-> [decodable |-> TRUE,
                        img |-> [w |-> 2, h |-> 2, px |-> <<BLACK, WHITE, WHITE, WHITE>>]],
       ocr |-> Returned(<<"H","I"," "," ","Y","O","U","\n">>)],
      [image_bytes |-> [decodable |-> FALSE], ocr |-> Returned(<<>>)],
      [image_bytes |-> [decodable |-> TRUE, img |-> [w |-> 1, h |-> 1, px |-> <<WHITE>>]],
       ocr |-> Raised("TesseractError")] }

\* The frame of an invocation at its call. given keeps the items the
\* detection dicts had at the call.
Frame(in, addrs, given) ==
    [pc |-> "load", image_bytes |-> in.image_bytes, ocr |-> in.ocr,
     gemini_detections |-> addrs, given |-> given,
     img |-> Unset, text_elements |-> <<>>, face_elements |-> <<>>,
     object_elements |-> <<>>, text_data |-> Unset,
     processed_faces |-> <<>>, detected_emotion |-> NoneVal,
     processed_objects |-> <<>>, result |-> Pending]

InitConcurrent ==
    /\ call = [fn |-> "none"]
    /\ ret = Pending
    /\ EndpointIdle
    /\ ServerIdle
    /\ tesseract_cmd = TESSERACT_EXECUTABLE_PATH
    /\ \E objsA \in SeqsUpTo(ConcDetections, MaxDetections),
          inA \in { in \in ConcInputs : in.image_bytes.decodable },
          inB \in ConcInputs :
         LET addrsA == [i \in 1..Len(objsA) |-> i]
         IN  \* B is given the very dicts A is given ...
             \/ /\ heap = objsA
                /\ inv = [v \in Invocations |->
                            IF v = "A" THEN Frame(inA, addrsA, objsA)
                            ELSE Frame(inB, addrsA, objsA)]
             \* ... or dicts of its own
             \/ \E objsB \in SeqsUpTo(ConcDetections, MaxDetections) :
                  LET addrsB == [i \in 1..Len(objsB) |-> Len(objsA) + i]
                  IN  /\ heap = objsA \o objsB
                      /\ inv = [v \in Invocations |->
                                  IF v = "A" THEN Frame(inA, addrsA, objsA)
                                  ELSE Frame(inB, addrsB, objsB)]

\* Where run_full_analysis goes on after the text step and after a loop
AfterFaces(f) == IF f.object_elements # <<>> THEN "objects" ELSE "compile"
AfterText(f) == IF f.face_elements # <<>> THEN "faces" ELSE AfterFaces(f)

\* "Load image"
ConcLoad(v) ==
    /\ inv[v].pc = "load"
    /\ \E opened \in { ImageOpen(inv[v].image_bytes) } :
         inv' = IF opened.status = "raised"
                THEN [inv EXCEPT ![v].pc = "done", ![v].result = opened]
                ELSE [inv EXCEPT ![v].pc = "categorize", ![v].img = opened.value]
    /\ UNCHANGED <<unitVars, endpointVars, serverVars, heap, tesseract_cmd>>

\* STEP 2: the three lists, holding the detections themselves
ConcCategorize(v) ==
    /\ inv[v].pc = "categorize"
    /\ LET group(g) == SelectSeq(inv[v].gemini_detections,
                                 LAMBDA a : ElementGroup(heap[a]) = g)
       IN  inv' = [inv EXCEPT ![v].pc = "text",
                              ![v].text_elements = group("text"),
                              ![v].face_elements = group("face"),
                              ![v].object_elements = group("object")]
    /\ UNCHANGED <<unitVars, endpointVars, serverVars, heap, tesseract_cmd>>

\* STEP 3: new text blocks, crop_and_extract_text; Tesseract is found through
\* the module global.
ConcText(v) ==
    /\ inv[v].pc = "text"
    /\ LET f == inv[v]
           ocr == IF tesseract_cmd = TESSERACT_EXECUTABLE_PATH THEN f.ocr
                  ELSE Raised("TesseractNotFoundError")
       IN  \E text_data \in { crop_and_extract_text(f.img.h, f.img.w,
                                 TextBlocksForOcr(Deref(heap, f.text_elements)),
                                 ocr).result } :
             inv' = [inv EXCEPT ![v].pc = AfterText(f), ![v].text_data = text_data]
    /\ UNCHANGED <<unitVars, endpointVars, serverVars, heap, tesseract_cmd>>

\* STEP 4, one iteration: the copy, its three new items, the emotion
ConcFace(v) ==
    /\ inv[v].pc = "faces"
    /\ LET f == inv[v]
           n == Len(f.processed_faces) + 1
       IN  \E c \in { dict_copy(heap, f.face_elements[n]) } :
           \E p \in { ProcessElement(f.img, c.heap[c.addr], "face") } :
             IF p.status = "raised"
             THEN /\ heap' = c.heap
                  /\ inv' = [inv EXCEPT ![v].pc = "done", ![v].result = p]
             ELSE /\ heap' = [c.heap EXCEPT ![c.addr] = p.value]
                  /\ inv' = [inv EXCEPT
                        ![v].processed_faces = Append(@, c.addr),
                        ![v].detected_emotion = DominantEmotion(<<p.value>>, @),
                        ![v].pc = IF n = Len(f.face_elements)
                                  THEN AfterFaces(f) ELSE "faces"]
    /\ UNCHANGED <<unitVars, endpointVars, serverVars, tesseract_cmd>>

\* STEP 5, one iteration
ConcObject(v) ==
    /\ inv[v].pc = "objects"
    /\ LET f == inv[v]
           n == Len(f.processed_objects) + 1
       IN  \E c \in { dict_copy(heap, f.object_elements[n]) } :
           \E p \in { ProcessElement(f.img, c.heap[c.addr], "object") } :
             IF p.status = "raised"
             THEN /\ heap' = c.heap
                  /\ inv' = [inv EXCEPT ![v].pc = "done", ![v].result = p]
             ELSE /\ heap' = [c.heap EXCEPT ![c.addr] = p.value]
                  /\ inv' = [inv EXCEPT
                        ![v].processed_objects = Append(@, c.addr),
                        ![v].pc = IF n = Len(f.object_elements)
                                  THEN "compile" ELSE "objects"]
    /\ UNCHANGED <<unitVars, endpointVars, serverVars, tesseract_cmd>>

\* STEP 6: the record, read from the processed dicts as they are now
ConcCompile(v) ==
    /\ inv[v].pc = "compile"
    /\ LET f == inv[v]
       IN  inv' = [inv EXCEPT
             ![v].pc = "done",
             ![v].result = Returned(
                 [text_content |-> f.text_data.text_content,
                  word_count |-> f.text_data.word_count,
                  cropped_image_bytes |-> f.text_data.cropped_image_bytes,
                  face_count |-> Len(f.face_elements),
                  detected_emotion |-> f.detected_emotion,
                  detected_faces |-> Deref(heap, f.processed_faces),
                  detected_objects |-> Deref(heap, f.processed_objects)])]
    /\ UNCHANGED <<unitVars, endpointVars, serverVars, heap, tesseract_cmd>>

NextConcurrent ==
    \E v \in Invocations :
        \/ ConcLoad(v)
        \/ ConcCategorize(v)
        \/ ConcText(v)
        \/ ConcFace(v)
        \/ ConcObject(v)
        \/ ConcCompile(v)

SpecConcurrent == InitConcurrent /\ [][NextConcurrent]_vars

\* C14: under every interleaving each invocation returns the record it
\* returns when run alone on what it was given, and no invocation writes the
\* module global or a dict of a detection list.
C14_InvocationsIndependent ==
    /\ tesseract_cmd = TESSERACT_EXECUTABLE_PATH
    /\ \A v \in Invocations :
         /\ \A i \in 1..Len(inv[v].gemini_detections) :
              heap[inv[v].gemini_detections[i]] = inv[v].given[i]
         /\ inv[v].pc = "done" =>
              inv[v].result =
                  run_full_analysis(inv[v].image_bytes, inv[v].given, inv[v].ocr)

\* C14 witness: A has returned a record with a processed face while B, given
\* the same dicts, is in the middle of its loops.
C14_Witness ==
    /\ inv["A"].pc = "done"
    /\ inv["A"].result.status = "returned"
    /\ inv["A"].result.value.face_count >= 1
    /\ inv["B"].gemini_detections = inv["A"].gemini_detections
    /\ inv["B"].pc \in { "faces", "objects" }
    /\ Len(inv["B"].processed_faces) >= 1

-----------------------------------------------------------------------------
(* The server: requests handled concurrently (main.py)                     *)
(*                                                                         *)
(* analyze_thumbnail is a coroutine: the code between two awaits runs on   *)
(* the event loop without interruption, and an awaited job runs where it   *)
(* was dispatched to. handler[r] is the coroutine of request r, pool[r]    *)
(* the job it awaits, loop the request whose code holds the event loop     *)
(* between steps (Unset when the loop is free to run any coroutine).       *)

Requests == { "r1", "r2" }

\* What the requests of the server carry, and what the collaborators yield
ServerRequests ==
    { [youtube_url |-> NoneVal, file |-> Unset],
      [youtube_url |-> URL_channel, file |-> Unset],
      [youtube_url |-> URL_watch, file |-> Unset],
      [youtube_url |-> NoneVal, file |-> [content |-> [decodable |-> FALSE]]],
      [youtube_url |-> NoneVal,
       file |-> [content |-> [decodable |-> TRUE,
                              img |-> [w |-> 1, h |-> 1, px |-> <<WHITE>>]]]] }
ServerGemini ==
    { Raised("APIError"),
      Returned([detected_objects |->
        << [label |-> L_face, bbox_normalized |-> <<0, 0, 500, 500>>,
            confidence |-> 90, emotion |-> E_Happy] >>]) }
ServerOcr == { Returned(<<>>) }
ServerFeedback ==
    { Raised("APIError"),
      Returned([attractiveness_score |-> 73,
                ai_suggestions |-> <<"s1", "s2", "s3", "s4", "s5">>]) }

\* A plausible slip: the function called directly in the coroutine, so that
\* it runs on the event loop.
run_inline(fn, args) ==
    [fn |-> fn, args |-> args, on |-> "loop", state |-> "queued", result |-> Unset]

\* run_in_threadpool(fn, *args): the job handed to a worker thread
run_in_threadpool(fn, args) ==
    [fn |-> fn, args |-> args, on |-> "thread", state |-> "queued", result |-> Unset]

\* The event loop after a coroutine has dispatched job and awaits it: held by
\* the coroutine when the job runs in it, free otherwise.
LoopAfterDispatch(r, job) == IF job.on = "loop" THEN r ELSE Unset

InitServer ==
    /\ call = [fn |-> "none"]
    /\ ret = Pending
    /\ EndpointIdle
    /\ ConcIdle
    /\ handler \in [Requests ->
                      { [pc |-> "start", req |-> q, image_bytes |-> Unset,
                         gemini_detections_list |-> Unset, analysis_data |-> Unset,
                         llm_result |-> Unset, response |-> Unset] :
                        q \in ServerRequests }]
    /\ pool = [r \in Requests |-> Unset]
    /\ loop = Unset

\* Input validation and STEP 0 up to its await
SrvReceive(r) ==
    /\ loop = Unset
    /\ handler[r].pc = "start"
    /\ LET q == handler[r].req
           given == q.youtube_url # NoneVal /\ q.youtube_url # <<>>
       IN  handler' =
             IF ~given /\ ~IsSet(q.file)
             THEN [handler EXCEPT ![r].pc = "done",
                     ![r].response = HttpError(400, "Either youtube_url or file must be provided")]
             ELSE IF given
             THEN IF extract_youtube_thumbnail_url(q.youtube_url) = NoneVal
                  THEN [handler EXCEPT ![r].pc = "done",
                          ![r].response = HttpError(400, "Invalid YouTube URL format")]
                  ELSE [handler EXCEPT ![r].pc = "fetching"]
             ELSE [handler EXCEPT ![r].pc = "reading"]
    /\ UNCHANGED <<unitVars, endpointVars, concVars, pool, loop>>

\* The image bytes arrive (fetch_image_bytes or file.read()) and the
\* coroutine runs on to the await of STEP 1; a failed fetch becomes a 500.
SrvImage(r) ==
    /\ loop = Unset
    /\ handler[r].pc \in { "fetching", "reading" }
    /\ \/ \E b \in IF handler[r].pc = "reading" THEN { handler[r].req.file.content }
                   ELSE { c.file.content : c \in { q \in ServerRequests : IsSet(q.file) } } :
            \E job \in { run_in_threadpool("get_all_detection_data", <<b>>) } :
              /\ handler' = [handler EXCEPT ![r].pc = "awaiting", ![r].image_bytes = b]
              /\ pool' = [pool EXCEPT ![r] = job]
              /\ loop' = LoopAfterDispatch(r, job)
       \/ /\ handler[r].pc = "fetching"
          /\ handler' = [handler EXCEPT ![r].pc = "done",
                           ![r].response = HttpError(500, "Analysis failed")]
          /\ UNCHANGED <<pool, loop>>
    /\ UNCHANGED <<unitVars, endpointVars, concVars>>

\* The job of request r starts to run, in a worker thread or, if it was
\* left on the loop, in the loop the coroutine holds.
SrvStart(r) ==
    /\ IsSet(pool[r])
    /\ pool[r].state = "queued"
    /\ pool[r].on = "loop" => loop = r
    /\ pool' = [pool EXCEPT ![r].state = "running"]
    /\ UNCHANGED <<unitVars, endpointVars, concVars, handler, loop>>

\* The job of request r runs to its end.
SrvFinish(r) ==
    /\ IsSet(pool[r])
    /\ pool[r].state = "running"
    /\ LET job == pool[r]
       IN  \E result \in
               IF job.fn = "get_all_detection_data"
               THEN { Returned(get_all_detection_data(gem)) : gem \in ServerGemini }
               ELSE IF job.fn = "run_full_analysis"
               THEN { run_full_analysis(job.args[1], job.args[2], o) : o \in ServerOcr }
               ELSE { Returned(generate_final_feedback(fb)) : fb \in ServerFeedback } :
             pool' = [pool EXCEPT ![r].state = "finished", ![r].result = result]
    /\ loop' = IF pool[r].on = "loop" THEN Unset ELSE loop
    /\ UNCHANGED <<unitVars, endpointVars, concVars, handler>>

\* The coroutine of request r resumes with the result of its job and runs on
\* to its next await or to its end.
SrvResume(r) ==
    /\ loop = Unset
    /\ handler[r].pc = "awaiting"
    /\ pool[r].state = "finished"
    /\ LET h == handler[r]
           job == pool[r]
       IN  IF job.fn = "get_all_detection_data"
           THEN \E l \in { DetectionsList(job.result.value) } :
                \E next \in { run_in_threadpool("run_full_analysis", <<h.image_bytes, l>>) } :
                  /\ handler' = [handler EXCEPT ![r].gemini_detections_list = l]
                  /\ pool' = [pool EXCEPT ![r] = next]
                  /\ loop' = LoopAfterDispatch(r, next)
           ELSE IF job.fn = "run_full_analysis"
           THEN IF job.result.status = "raised"
                THEN /\ handler' = [handler EXCEPT ![r].pc = "done",
                                      ![r].response = HttpError(500, "Analysis failed")]
                     /\ pool' = [pool EXCEPT ![r] = Unset]
                     /\ UNCHANGED loop
                ELSE \E next \in { run_in_threadpool("generate_final_feedback",
                                       <<h.image_bytes, job.result.value>>) } :
                       /\ handler' = [handler EXCEPT ![r].analysis_data = job.result.value]
                       /\ pool' = [pool EXCEPT ![r] = next]
                       /\ loop' = LoopAfterDispatch(r, next)
           ELSE /\ handler' = [handler EXCEPT
                     ![r].llm_result = job.result.value,
                     ![r].pc = "done",
                     ![r].response =
                        [status |-> 200,
                         body |-> [word_count |-> h.analysis_data.word_count,
                                   text_content |-> h.analysis_data.text_content,
                                   face_count |-> h.analysis_data.face_count,
                                   detected_emotion |-> h.analysis_data.detected_emotion,
                                   detected_faces |-> h.analysis_data.detected_faces,
                                   detected_objects |-> h.analysis_data.detected_objects,
                                   attractiveness_score |->
                                       job.result.value.attractiveness_score,
                                   ai_suggestions |-> job.result.value.ai_suggestions]]]
                /\ pool' = [pool EXCEPT ![r] = Unset]
                /\ UNCHANGED loop
    /\ UNCHANGED <<unitVars, endpointVars, concVars>>

NextServer ==
    \E r \in Requests :
        \/ SrvReceive(r)
        \/ SrvImage(r)
        \/ SrvStart(r)
        \/ SrvFinish(r)
        \/ SrvResume(r)

SpecServer == InitServer /\ [][NextServer]_vars

\* Request r has a job that is waiting to run or running.
JobInFlight(r) == IsSet(pool[r]) /\ pool[r].state \in { "queued", "running" }

\* C15: detection, run_full_analysis and feedback never run on the event
\* loop: a job in flight is in a worker thread and the loop is free, so that
\* meanwhile the loop can start any other request and resume any other
\* request whose job has finished.
C15_CoreOffEventLoop ==
    \A r \in Requests :
        JobInFlight(r) =>
            /\ pool[r].on = "thread"
            /\ loop = Unset
            /\ \A o \in Requests \ { r } :
                 /\ handler[o].pc = "start" => ENABLED SrvReceive(o)
                 /\ ( /\ handler[o].pc = "awaiting"
                      /\ pool[o].state = "finished" ) => ENABLED SrvResume(o)

\* C15 witness: run_full_analysis of r1 is running while r2, whose detection
\* has finished, is ready to be resumed.
C15_Witness ==
    /\ IsSet(pool["r1"])
    /\ pool["r1"].fn = "run_full_analysis"
    /\ pool["r1"].state = "running"
    /\ handler["r2"].pc = "awaiting"
    /\ pool["r2"].fn = "get_all_detection_data"
    /\ pool["r2"].state = "finished"

=============================================================================
